---------------------------- MODULE Spec2Model ----------------------------
(***************************************************************************)
(* phaser-unpacker (src/main.go): the concurrent extraction pipeline.      *)
(*                                                                         *)
(*   unpack        one goroutine per sheet, a WaitGroup, a mutex-guarded   *)
(*                 first-error slot                                        *)
(*   unpackSheet   open + decode once, W workers ranging over the          *)
(*                 unbuffered jobs channel, a dispatcher goroutine feeding *)
(*                 it, a results channel of capacity len(Textures)         *)
(*   unpackTexture image.NewRGBA(sourceSize), draw.Draw(Src), png encode   *)
(*                                                                         *)
(* Spec is the pipeline.  SpecRerun lets unpack be invoked a second time,   *)
(* on a clean output directory or on the one the first run left.  SpecTex  *)
(* applies unpackTexture's image transform to textures whose geometry is   *)
(* drawn from bounded sets.                                                *)
(*                                                                         *)
(* Inputs not covered: texture file names are taken to be pairwise         *)
(* distinct and free of "/" (no MkdirAll of a sub-directory), and the      *)
(* output files can always be created and closed; the failures modelled    *)
(* are the output root that cannot be created, the sheet image that cannot *)
(* be opened or decoded, and the png encoder refusing an empty image.      *)
(***************************************************************************)
EXTENDS Integers, Sequences, FiniteSets, TLC

\* ------------------------------------------------------------- bounds
MaxSheets == 2
MaxTex == 2
MaxWorkers == 2
\* the source images are ImgDim x ImgDim
ImgDim == 2
\* widths and heights of the drawn geometry range over 0..MaxDim
MaxDim == 2
\* origins of spriteSourceSize range over 0..MaxOff
MaxOff == 1

\* ------------------------------------------------------------- geometry
Min2(a, b) == IF a < b THEN a ELSE b
Max2(a, b) == IF a > b THEN a ELSE b

\* image.Rectangle{Min, Max}
Rect(x0, y0, x1, y1) == [x0 |-> x0, y0 |-> y0, x1 |-> x1, y1 |-> y1]
ZR == Rect(0, 0, 0, 0)
Dx(r) == r.x1 - r.x0
Dy(r) == r.y1 - r.y0
RectEmpty(r) == r.x0 >= r.x1 \/ r.y0 >= r.y1
Points(r) == {<<x, y>> : x \in r.x0 .. (r.x1 - 1), y \in r.y0 .. (r.y1 - 1)}

\* image.Rectangle.Intersect: the empty intersection is the zero rectangle
Intersect(r, s) ==
    LET t == Rect(Max2(r.x0, s.x0), Max2(r.y0, s.y0),
                  Min2(r.x1, s.x1), Min2(r.y1, s.y1))
    IN  IF RectEmpty(t) THEN ZR ELSE t

\* image.Rectangle.Add
RectAdd(r, dx, dy) == Rect(r.x0 + dx, r.y0 + dy, r.x1 + dx, r.y1 + dy)

\* Size.Rect: anchored at the origin
SizeRect(sz) == Rect(0, 0, sz.Width, sz.Height)

\* Frame.Rect: Min = (X, Y), Max = (X + Width, Y + Height)
FrameRect(fr) == Rect(fr.X, fr.Y, fr.X + fr.Width, fr.Y + fr.Height)

Size(w, h) == [Width |-> w, Height |-> h]
Frame(x, y, w, h) == [X |-> x, Y |-> y, Width |-> w, Height |-> h]

\* ------------------------------------------------------------- pixels
\* A pixel is <<c, a>>: one 8-bit colour channel (standing for R, G and B)
\* and 8-bit alpha.  A decoded source image holds non-premultiplied pixels
\* (image.NRGBA: png with alpha, lossless webp); the sprite canvas is
\* image.RGBA, alpha-premultiplied.
Transparent == <<0, 0>>

\* draw.Draw, op Src, onto *image.RGBA: the source colour is converted to
\* premultiplied 8-bit RGBA
ToRGBA(p) ==
    LET sa == p[2] * 257
        sr == (p[1] * sa) \div 255
    IN  <<sr \div 256, sa \div 256>>

\* png.Encoder on a non-opaque *image.RGBA writes color.NRGBAModel values
ToNRGBA(p) ==
    LET r16 == p[1] * 257
        a16 == p[2] * 257
    IN  IF a16 = 65535 THEN <<p[1], 255>>
        ELSE IF a16 = 0 THEN <<0, 0>>
        ELSE <<((r16 * 65535) \div a16) \div 256, p[2]>>

Image(b, pix) == [bounds |-> b, pix |-> pix]

\* image.NewRGBA: every pixel zero, i.e. fully transparent
NewRGBA(r) == Image(r, [p \in Points(r) |-> Transparent])

Palette == << <<255, 255>>, <<100, 1>>, <<200, 128>>, <<7, 255>>, <<0, 0>>, <<90, 60>>, <<31, 255>> >>

\* The decoded image of sheet s: ImgDim x ImgDim, neighbouring pixels differ
SheetImage(s) ==
    LET b == Rect(0, 0, ImgDim, ImgDim)
    IN  Image(b, [p \in Points(b) |->
                    Palette[((p[1] + ImgDim * p[2] + 3 * s) % Len(Palette)) + 1]])

\* draw.Draw(dst, r, src, sp, draw.Src): r is clipped to dst's bounds and to
\* src's bounds translated by r.Min - sp; the pixel at p of the clipped r
\* comes from src at sp + (p - r.Min).
DrawSrc(dst, r, src, sp) ==
    LET c1 == Intersect(r, dst.bounds)
        c2 == Intersect(c1, RectAdd(src.bounds, r.x0 - sp[1], r.y0 - sp[2]))
        in == Points(c2)
    IN  Image(dst.bounds,
              [p \in Points(dst.bounds) |->
                 IF p \in in
                 THEN ToRGBA(src.pix[<<sp[1] + (p[1] - r.x0), sp[2] + (p[2] - r.y0)>>])
                 ELSE dst.pix[p]])

\* the copy taken from the image's origin instead of sourceFrame.Min
SpriteFromImageOrigin(texture, img) ==
    DrawSrc(NewRGBA(SizeRect(texture.SourceSize)), FrameRect(texture.SpriteSourceSize),
            img, <<0, 0>>)

\* lines 93-99 of unpackTexture: the sprite canvas after the copy
Sprite(texture, img) ==
    LET spriteSize == SizeRect(texture.SourceSize)
        destFrame == FrameRect(texture.SpriteSourceSize)
        sourceFrame == FrameRect(texture.Frame)
    IN  DrawSrc(NewRGBA(spriteSize), destFrame, img, <<sourceFrame.x0, sourceFrame.y0>>)

\* ------------------------------------------------------------- errors
Nil == [op |-> "nil", sheet |-> 0, tex |-> 0]
Err(op, s, t) == [op |-> op, sheet |-> s, tex |-> t]

\* ------------------------------------------------------------- files
NoFile == [state |-> "absent", img |-> NewRGBA(ZR)]
\* os.Create: the file exists and is empty
CreatedFile == [state |-> "empty", img |-> NewRGBA(ZR)]
PngFile(img) == [state |-> "png", img |-> img]

\* a file opened for appending: what is written lands after the old content
OpenAppend(old, new) ==
    IF old.state = "absent" THEN new ELSE [state |-> "appended", img |-> new.img]

\* line 114: os.Create truncates the file at outputPath, so after the call
\* the file holds what the call's writes put there and nothing of the old
Create(old, new) == new

\* png.Encoder.Encode: an image of width or height 0 is a FormatError;
\* otherwise the file holds the image's pixels as the encoder writes them
PngEncodable(img) == Dx(img.bounds) > 0 /\ Dy(img.bounds) > 0
PngEncode(img) == Image(img.bounds, [p \in Points(img.bounds) |-> ToNRGBA(img.pix[p])])

\* unpackTexture(texture, img) for the texture t of sheet s: the sprite it
\* draws, the error it returns and the file it leaves at outputPath
unpackTexture(texture, img, s, t) ==
    LET sprite == Sprite(texture, img)
    IN  IF PngEncodable(sprite)
        THEN [sprite |-> sprite, err |-> Nil, file |-> PngFile(PngEncode(sprite))]
        ELSE [sprite |-> sprite, err |-> Err("failed to encode sprite as png", s, t),
              file |-> CreatedFile]

\* ------------------------------------------------------------- manifest
\* The textures a sheet of the pipeline may hold (Texture, lines 58-65):
\*   "good"  frame inside the image, spriteSourceSize inside sourceSize
\*   "oob"   frame outside the image bounds
\*   "zero"  sourceSize 0 x 0: the png encoder refuses the sprite
TexKinds == {"good", "oob", "zero"}

Texture(name, frame, rotated, sourceSize, spriteSourceSize, trimmed) ==
    [FileName |-> name, Frame |-> frame, Rotated |-> rotated,
     SourceSize |-> sourceSize, SpriteSourceSize |-> spriteSourceSize,
     Trimmed |-> trimmed]

MkTexture(kind, s, t) ==
    CASE kind = "good" ->
           Texture(<<s, t>>, Frame((t - 1) % ImgDim, 0, 1, 1), FALSE, Size(2, 1), Frame(1, 0, 1, 1), TRUE)
      [] kind = "oob" ->
           Texture(<<s, t>>, Frame(ImgDim, ImgDim, 1, 1), FALSE, Size(1, 1), Frame(0, 0, 1, 1), FALSE)
      [] OTHER ->
           Texture(<<s, t>>, Frame(0, 0, 0, 0), FALSE, Size(0, 0), Frame(0, 0, 0, 0), FALSE)

\* what os.Open / image.Decode find at filepath.Join(InputDir, sheet.Image)
ImageStates == {"ok", "bad"}

TexSeqs == UNION {[1 .. n -> TexKinds] : n \in 1 .. MaxTex}

\* the geometry drawn for SpecTex
TexGeometries ==
    {Texture(<<1, 1>>, Frame(fx, fy, fw, fh), rot, Size(sw, sh), Frame(dx, dy, dw, dh), trim) :
        fx \in 0 .. ImgDim, fy \in 0 .. ImgDim, fw \in 0 .. MaxDim, fh \in 0 .. MaxDim,
        sw \in 0 .. MaxDim, sh \in 0 .. MaxDim,
        dx \in 0 .. MaxOff, dy \in 0 .. MaxOff, dw \in 0 .. MaxDim, dh \in 0 .. MaxDim,
        rot \in BOOLEAN, trim \in BOOLEAN}

VARIABLES
    Sheets,         \* unpacker.Pack.Sheets, each with the state of its image file
    Workers,        \* unpacker.Workers
    progress,       \* p != nil: the progress sink is present
    mpc,            \* where unpack is: "off", "start", "wait", "pwait", "done"
    ret,            \* what unpack returned
    firstErr,       \* unpack's firstErr
    mu,             \* unpack's mutex: 0, or the sheet whose goroutine holds it
    spc,            \* per sheet: where its goroutine (lines 243-252, unpackSheet) is
    sheetErr,       \* per sheet: what unpackSheet returned
    wpc,            \* per sheet and worker: "idle", "recv", "work", "done"
    wtex,           \* per sheet and worker: the texture received from jobs
    werr,           \* per sheet and worker: err of unpackTexture
    dpc,            \* per sheet: the dispatcher goroutine: "idle", "send", "done"
    dnext,          \* per sheet: index of the texture the dispatcher sends next
    jobsClosed,     \* per sheet: close(jobs) has run
    results,        \* per sheet: the values sent on results, in order
    resultsClosed,  \* per sheet: close(results) has run
    sheetBar,       \* per sheet: increments of its bar
    totalBar,       \* increments of the total bar
    files,          \* the output directory: per output path, the file there
    attempted,      \* history: the textures handed to unpackTexture
    sigCount,       \* history: per texture, its progress signals (sheetBar, totalBar)
    resCount,       \* history: per texture, the results sent for it
    run,            \* "first"; in a second invocation of unpack "fresh" (on a clean
                    \* output directory) or "again" (on the one the first left)
    prevFiles,      \* the output directory the first invocation left
    prevWorkers,    \* unpacker.Workers of the first invocation (0: there was none)
    decodes,        \* history: per sheet, the calls of image.Decode in this run
    exTex,          \* SpecTex: the texture to extract
    exOut,          \* SpecTex: what unpackTexture made of exTex
    expc            \* SpecTex: "off", "ready", "done"

vars == <<Sheets, Workers, progress, mpc, ret, firstErr, mu, spc, sheetErr, wpc, wtex,
          werr, dpc, dnext, jobsClosed, results, resultsClosed, sheetBar, totalBar,
          files, attempted, sigCount, resCount, run, prevFiles, prevWorkers, decodes,
          exTex, exOut, expc>>

inputVars == <<Sheets, Workers, progress>>
mainVars == <<mpc, ret>>
errVars == <<firstErr, mu>>
sheetVars == <<spc, sheetErr, resultsClosed>>
workerVars == <<wpc, wtex, werr>>
dispVars == <<dpc, dnext, jobsClosed>>
barVars == <<sheetBar, totalBar>>
histVars == <<attempted, sigCount, resCount, decodes>>
runVars == <<run, prevFiles, prevWorkers>>
exVars == <<exTex, exOut, expc>>

SheetIds == 1 .. Len(Sheets)
\* one goroutine more than unpacker.Workers
OneWorkerMore == 1 .. (Workers + 1)
\* line 148: for range unpacker.Workers
WorkerIds == 1 .. Workers
TexIds(s) == 1 .. Len(Sheets[s].Textures)
Units == {<<s, t>> : s \in 1 .. MaxSheets, t \in 1 .. MaxTex}

\* totalTextures, lines 199-207
RECURSIVE SumTextures(_)
SumTextures(n) == IF n = 0 THEN 0 ELSE Len(Sheets[n].Textures) + SumTextures(n - 1)
totalTextures == SumTextures(Len(Sheets))

\* ------------------------------------------------------------- Init
\* the state of a run of unpack before its first step, on a clean output
\* directory when first is TRUE
Fresh(first) ==
    /\ ret = Nil
    /\ firstErr = Nil
    /\ mu = 0
    /\ spc = [s \in SheetIds |-> "idle"]
    /\ sheetErr = [s \in SheetIds |-> Nil]
    /\ wpc = [s \in SheetIds |-> [w \in WorkerIds |-> "idle"]]
    /\ wtex = [s \in SheetIds |-> [w \in WorkerIds |-> 0]]
    /\ werr = [s \in SheetIds |-> [w \in WorkerIds |-> Nil]]
    /\ dpc = [s \in SheetIds |-> "idle"]
    /\ dnext = [s \in SheetIds |-> 1]
    /\ jobsClosed = [s \in SheetIds |-> FALSE]
    /\ results = [s \in SheetIds |-> <<>>]
    /\ resultsClosed = [s \in SheetIds |-> FALSE]
    /\ sheetBar = [s \in SheetIds |-> 0]
    /\ totalBar = 0
    /\ attempted = {}
    /\ sigCount = [u \in Units |-> 0]
    /\ resCount = [u \in Units |-> 0]
    /\ decodes = [s \in SheetIds |-> 0]
    /\ first => files = [u \in Units |-> NoFile]

ExOff ==
    /\ exTex = MkTexture("good", 1, 1)
    /\ exOut = unpackTexture(exTex, SheetImage(1), 1, 1)
    /\ expc = "off"

Manifests ==
    UNION {[1 .. n -> [Image : ImageStates, Kinds : TexSeqs]] : n \in 1 .. MaxSheets}

MkSheets(m) ==
    [s \in DOMAIN m |->
       [Image |-> m[s].Image,
        Textures |-> [t \in DOMAIN m[s].Kinds |-> MkTexture(m[s].Kinds[t], s, t)]]]

Init ==
    /\ \E m \in Manifests : Sheets = MkSheets(m)
    /\ Workers \in 1 .. MaxWorkers
    /\ progress \in BOOLEAN
    /\ mpc = "start"
    /\ run = "first"
    /\ prevFiles = [u \in Units |-> NoFile]
    /\ prevWorkers = 0
    /\ Fresh(TRUE)
    /\ ExOff

\* ------------------------------------------------------------- unpack
\* line 192
MkdirError == Err("failed to create output directory", 0, 0)

\* lines 191-253: MkdirAll of the output root, then one goroutine per sheet
MainStart ==
    /\ mpc = "start"
    /\ \E ok \in BOOLEAN :
         IF ok
         THEN /\ mpc' = "wait"
              /\ spc' = [s \in SheetIds |-> "open"]
              /\ ret' = ret
         ELSE /\ mpc' = "done"
              /\ ret' = MkdirError
              /\ spc' = spc
    /\ UNCHANGED <<inputVars, errVars, sheetErr, resultsClosed, workerVars, dispVars,
                   results, barVars, files, histVars, runVars, exVars>>

\* p.Wait() returns once every bar has reached its total
BarsComplete ==
    /\ \A s \in SheetIds : sheetBar[s] >= Len(Sheets[s].Textures)
    /\ totalBar >= totalTextures

\* lines 260-266
unpackReturn == IF firstErr # Nil THEN firstErr ELSE Nil

\* a wait that one finished sheet goroutine releases
SomeSheetDone == \E s \in SheetIds : spc[s] = "done"

\* line 255: wg.Wait() returns when every sheet goroutine has called Done
AllSheetsDone == \A s \in SheetIds : spc[s] = "done"

MainWait ==
    /\ mpc = "wait"
    /\ AllSheetsDone
    /\ IF progress
       THEN mpc' = "pwait" /\ ret' = ret
       ELSE mpc' = "done" /\ ret' = unpackReturn
    /\ UNCHANGED <<inputVars, errVars, sheetVars, workerVars, dispVars, results,
                   barVars, files, histVars, runVars, exVars>>

\* lines 256-258
MainProgressWait ==
    /\ mpc = "pwait"
    /\ BarsComplete
    /\ mpc' = "done"
    /\ ret' = unpackReturn
    /\ UNCHANGED <<inputVars, errVars, sheetVars, workerVars, dispVars, results,
                   barVars, files, histVars, runVars, exVars>>

\* ------------------------------------------------------------- unpackSheet
\* the error of lines 133-141 dropped
NoOpenError(s) == {Nil}

\* lines 133-141: os.Open fails on a missing file, image.Decode on a corrupt one
OpenErrors(s) ==
    {Err("failed to open texture sheet", s, 0), Err("failed to decode webp file", s, 0)}

\* results made without a buffer
Unbuffered(s) == 0

\* line 144: results := make(chan error, len(sheet.Textures))
resultsCap(s) == Len(Sheets[s].Textures)

\* lines 131-171 without the checks of lines 134 and 139: the workers and the
\* dispatcher start whatever os.Open and image.Decode returned
SheetOpenUnchecked(s) ==
    /\ spc[s] = "open"
    /\ decodes' = [decodes EXCEPT ![s] = @ + 1]
    /\ wpc' = [wpc EXCEPT ![s] = [w \in WorkerIds |-> "recv"]]
    /\ dpc' = [dpc EXCEPT ![s] = "send"]
    /\ spc' = [spc EXCEPT ![s] = "wait"]
    /\ UNCHANGED <<inputVars, mainVars, errVars, sheetErr, resultsClosed, wtex, werr,
                   dnext, jobsClosed, results, barVars, files, attempted, sigCount,
                   resCount, runVars, exVars>>

\* lines 131-171: open and decode the image; on failure return the error, else
\* make the channels, start the workers and the dispatcher.  image.Decode
\* (line 138) is called when os.Open succeeded.
SheetOpen(s) ==
    /\ spc[s] = "open"
    /\ IF Sheets[s].Image # "ok"
       THEN /\ \E e \in OpenErrors(s) :
                 /\ sheetErr' = [sheetErr EXCEPT ![s] = e]
                 /\ decodes' = [decodes EXCEPT ![s] =
                                  IF e.op = "failed to open texture sheet" THEN @ ELSE @ + 1]
            /\ spc' = [spc EXCEPT ![s] = "ret"]
            /\ UNCHANGED <<wpc, dpc>>
       ELSE /\ wpc' = [wpc EXCEPT ![s] = [w \in WorkerIds |-> "recv"]]
            /\ dpc' = [dpc EXCEPT ![s] = "send"]
            /\ spc' = [spc EXCEPT ![s] = "wait"]
            /\ decodes' = [decodes EXCEPT ![s] = @ + 1]
            /\ UNCHANGED sheetErr
    /\ UNCHANGED <<inputVars, mainVars, errVars, resultsClosed, wtex, werr, dnext,
                   jobsClosed, results, barVars, files, attempted, sigCount, resCount,
                   runVars, exVars>>

\* The workers blocked in `range jobs` hold no state of their own, so the one
\* that receives is taken to be the lowest-numbered of them.
Receiver(s, w) ==
    /\ wpc[s][w] = "recv"
    /\ \A v \in WorkerIds : v < w => wpc[s][v] # "recv"

\* lines 150 and 168: jobs is unbuffered, so the dispatcher's send and a
\* worker's receive are one step
Handoff(s, w) ==
    /\ dpc[s] = "send"
    /\ dnext[s] <= Len(Sheets[s].Textures)
    /\ Receiver(s, w)
    /\ wtex' = [wtex EXCEPT ![s][w] = dnext[s]]
    /\ wpc' = [wpc EXCEPT ![s][w] = "work"]
    /\ dnext' = [dnext EXCEPT ![s] = dnext[s] + 1]
    /\ UNCHANGED <<inputVars, mainVars, errVars, sheetVars, werr, dpc, jobsClosed,
                   results, barVars, files, histVars, runVars, exVars>>

\* line 170: close(jobs) after the last send
DispatchClose(s) ==
    /\ dpc[s] = "send"
    /\ dnext[s] > Len(Sheets[s].Textures)
    /\ jobsClosed' = [jobsClosed EXCEPT ![s] = TRUE]
    /\ dpc' = [dpc EXCEPT ![s] = "done"]
    /\ UNCHANGED <<inputVars, mainVars, errVars, sheetVars, workerVars, dnext,
                   results, barVars, files, histVars, runVars, exVars>>

\* line 150: `range jobs` ends on the closed channel; the worker returns
WorkerExit(s, w) ==
    /\ Receiver(s, w)
    /\ jobsClosed[s]
    /\ wpc' = [wpc EXCEPT ![s][w] = "done"]
    /\ UNCHANGED <<inputVars, mainVars, errVars, sheetVars, wtex, werr, dispVars,
                   results, barVars, files, histVars, runVars, exVars>>

\* lines 151-161, one iteration of the worker's loop from the call of
\* unpackTexture on: on an error send it and return; otherwise increment the
\* bars (when present) and send nil.  The texture's output file is its own, so
\* the call and the report are one step.  results has capacity len(Textures).
WorkerFinish(s, w) ==
    /\ wpc[s][w] = "work"
    /\ Len(results[s]) < resultsCap(s)
    /\ \E t \in {wtex[s][w]} :
       \E r \in {unpackTexture(Sheets[s].Textures[t], SheetImage(s), s, t)} :
       \E signal \in {progress /\ r.err = Nil} :
           /\ files' = [files EXCEPT ![Sheets[s].Textures[t].FileName] = Create(@, r.file)]
           /\ werr' = [werr EXCEPT ![s][w] = r.err]
           /\ attempted' = attempted \cup {<<s, t>>}
           /\ sheetBar' = [sheetBar EXCEPT ![s] = IF signal THEN @ + 1 ELSE @]
           /\ totalBar' = IF signal THEN totalBar + 1 ELSE totalBar
           /\ sigCount' = [sigCount EXCEPT ![<<s, t>>] = IF signal THEN @ + 1 ELSE @]
           /\ results' = [results EXCEPT ![s] = Append(@, r.err)]
           /\ resCount' = [resCount EXCEPT ![<<s, t>>] = @ + 1]
           /\ wpc' = [wpc EXCEPT ![s][w] =
                        IF r.err # Nil THEN "done" ELSE "recv"]
    /\ UNCHANGED <<inputVars, mainVars, errVars, sheetVars, wtex, dispVars,
                   decodes, runVars, exVars>>

\* the results queue ignored
NoError(q) == Nil

\* lines 176-182: the first non-nil value on results, or nil
RECURSIVE FirstError(_)
FirstError(q) ==
    IF q = <<>> THEN Nil
    ELSE IF Head(q) # Nil THEN Head(q)
    ELSE FirstError(Tail(q))

\* a wait that the first returning worker releases
SomeWorkerDone(s) == \E w \in WorkerIds : wpc[s][w] = "done"

\* a wait that a recorded failure of any sheet cuts short
AllWorkersDoneOrFailed(s) == (\A w \in WorkerIds : wpc[s][w] = "done") \/ firstErr # Nil

\* line 173: wg.Wait() returns when every worker has returned
AllWorkersDone(s) == \A w \in WorkerIds : wpc[s][w] = "done"

\* lines 173-182: after wg.Wait(), close(results), range over it and return
SheetCollect(s) ==
    /\ spc[s] = "wait"
    /\ AllWorkersDone(s)
    /\ resultsClosed' = [resultsClosed EXCEPT ![s] = TRUE]
    /\ sheetErr' = [sheetErr EXCEPT ![s] = FirstError(results[s])]
    /\ spc' = [spc EXCEPT ![s] = "ret"]
    /\ UNCHANGED <<inputVars, mainVars, errVars, workerVars, dispVars, results,
                   barVars, files, histVars, runVars, exVars>>

\* ------------------------------------------------------------- sheet goroutine
\* line 245 with err == nil: the deferred wg.Done()
SheetDoneOk(s) ==
    /\ spc[s] = "ret"
    /\ sheetErr[s] = Nil
    /\ spc' = [spc EXCEPT ![s] = "done"]
    /\ UNCHANGED <<inputVars, mainVars, errVars, sheetErr, resultsClosed, workerVars,
                   dispVars, results, barVars, files, histVars, runVars, exVars>>

\* line 246: mu.Lock()
SheetLock(s) ==
    /\ spc[s] = "ret"
    /\ sheetErr[s] # Nil
    /\ mu = 0
    /\ mu' = s
    /\ spc' = [spc EXCEPT ![s] = "locked"]
    /\ UNCHANGED <<inputVars, mainVars, firstErr, sheetErr, resultsClosed, workerVars,
                   dispVars, results, barVars, files, histVars, runVars, exVars>>

\* the assignment of line 248 without the test of line 247
StoreLast(old, err) == err

\* the test of line 247 inverted
StoreFirstInverted(old, err) == IF old # Nil THEN err ELSE old

\* lines 247-249: if firstErr == nil { firstErr = err }
StoreFirst(old, err) == IF old = Nil THEN err ELSE old

SheetStore(s) ==
    /\ spc[s] = "locked"
    /\ firstErr' = StoreFirst(firstErr, sheetErr[s])
    /\ spc' = [spc EXCEPT ![s] = "stored"]
    /\ UNCHANGED <<inputVars, mainVars, mu, sheetErr, resultsClosed, workerVars,
                   dispVars, results, barVars, files, histVars, runVars, exVars>>

\* line 250 and the deferred wg.Done()
SheetUnlock(s) ==
    /\ spc[s] = "stored"
    /\ mu' = 0
    /\ spc' = [spc EXCEPT ![s] = "done"]
    /\ UNCHANGED <<inputVars, mainVars, firstErr, sheetErr, resultsClosed, workerVars,
                   dispVars, results, barVars, files, histVars, runVars, exVars>>

\* ------------------------------------------------------------- Spec
Next ==
    \/ MainStart
    \/ MainWait
    \/ MainProgressWait
    \/ \E s \in SheetIds : SheetOpen(s)
    \/ \E s \in SheetIds : DispatchClose(s)
    \/ \E s \in SheetIds : SheetCollect(s)
    \/ \E s \in SheetIds : SheetDoneOk(s)
    \/ \E s \in SheetIds : SheetLock(s)
    \/ \E s \in SheetIds : SheetStore(s)
    \/ \E s \in SheetIds : SheetUnlock(s)
    \/ \E s \in SheetIds : \E w \in WorkerIds : Handoff(s, w)
    \/ \E s \in SheetIds : \E w \in WorkerIds : WorkerExit(s, w)
    \/ \E s \in SheetIds : \E w \in WorkerIds : WorkerFinish(s, w)

Spec == Init /\ [][Next]_vars

\* ------------------------------------------------------------- a second run
\* total textures of the manifests that are run twice
MaxRerunTex == 2

InitRerun == Init /\ totalTextures <= MaxRerunTex

\* unpack is invoked again with the same manifest and images, any worker
\* count, on a clean output directory or on the one the first run left
Rerun ==
    /\ mpc = "done"
    /\ run = "first"
    /\ ret # MkdirError
    /\ \E mode \in {"fresh", "again"} :
         /\ run' = mode
         /\ files' = IF mode = "fresh" THEN [u \in Units |-> NoFile] ELSE files
    /\ prevFiles' = files
    /\ prevWorkers' = Workers
    /\ Workers' \in 1 .. MaxWorkers
    /\ mpc' = "start"
    /\ ret' = Nil
    /\ firstErr' = Nil
    /\ mu' = 0
    /\ spc' = [s \in SheetIds |-> "idle"]
    /\ sheetErr' = [s \in SheetIds |-> Nil]
    /\ wpc' = [s \in SheetIds |-> [w \in 1 .. Workers' |-> "idle"]]
    /\ wtex' = [s \in SheetIds |-> [w \in 1 .. Workers' |-> 0]]
    /\ werr' = [s \in SheetIds |-> [w \in 1 .. Workers' |-> Nil]]
    /\ dpc' = [s \in SheetIds |-> "idle"]
    /\ dnext' = [s \in SheetIds |-> 1]
    /\ jobsClosed' = [s \in SheetIds |-> FALSE]
    /\ results' = [s \in SheetIds |-> <<>>]
    /\ resultsClosed' = [s \in SheetIds |-> FALSE]
    /\ sheetBar' = [s \in SheetIds |-> 0]
    /\ totalBar' = 0
    /\ attempted' = {}
    /\ sigCount' = [u \in Units |-> 0]
    /\ resCount' = [u \in Units |-> 0]
    /\ decodes' = [s \in SheetIds |-> 0]
    /\ UNCHANGED <<Sheets, progress, exVars>>

NextRerun == Next \/ Rerun

SpecRerun == InitRerun /\ [][NextRerun]_vars

\* ------------------------------------------------------------- SpecTex
\* unpackTexture on one texture of drawn geometry, against sheet 1's image
InitTex ==
    /\ Sheets = <<>>
    /\ Workers = 1
    /\ progress = FALSE
    /\ mpc = "off"
    /\ run = "first"
    /\ prevFiles = [u \in Units |-> NoFile]
    /\ prevWorkers = 0
    /\ Fresh(TRUE)
    /\ exTex \in TexGeometries
    /\ exOut = unpackTexture(MkTexture("zero", 1, 1), SheetImage(1), 1, 1)
    /\ expc = "ready"

ExtractTexture ==
    /\ expc = "ready"
    /\ exOut' = unpackTexture(exTex, SheetImage(1), 1, 1)
    /\ expc' = "done"
    /\ UNCHANGED <<inputVars, mainVars, errVars, sheetVars, workerVars, dispVars,
                   results, barVars, files, histVars, runVars, exTex>>

NextTex == ExtractTexture

SpecTex == InitTex /\ [][NextTex]_vars

\* ------------------------------------------------------------- claims
Tex(s, t) == Sheets[s].Textures[t]
Outcome(s, t) == unpackTexture(Tex(s, t), SheetImage(s), s, t)
TexFails(s, t) == Outcome(s, t).err # Nil
Written(s, t) == files[Tex(s, t).FileName] = PngFile(PngEncode(Sprite(Tex(s, t), SheetImage(s))))
SheetReturned(s) == spc[s] \in {"ret", "locked", "stored", "done"}
Decoded(s) == Sheets[s].Image = "ok"
RootCreated == mpc \in {"wait", "pwait"} \/ (mpc = "done" /\ ret # MkdirError)

\* C1: when unpackSheet returns, every texture of the sheet has been handed to
\* unpackTexture, whichever textures fail and whatever the worker count, so
\* every texture that does not fail has its file written.
C1_EveryTextureAttempted ==
    \A s \in SheetIds :
        (SheetReturned(s) /\ Decoded(s)) =>
            \A t \in TexIds(s) :
                /\ <<s, t>> \in attempted
                /\ ~TexFails(s, t) => Written(s, t)

\* C2: unpackSheet returns only after every texture has been dispatched and
\* every worker has finished; it returns nil when no texture of the sheet
\* failed, and otherwise the earliest error on the results queue.
C2_ReturnsAfterAllWithFirstError ==
    \A s \in SheetIds :
        (SheetReturned(s) /\ Decoded(s)) =>
            /\ dnext[s] > Len(Sheets[s].Textures)
            /\ AllWorkersDone(s)
            /\ (\A t \in TexIds(s) : ~TexFails(s, t)) => sheetErr[s] = Nil
            /\ (\E t \in TexIds(s) : TexFails(s, t)) =>
                 /\ sheetErr[s] # Nil
                 /\ \E i \in 1 .. Len(results[s]) :
                      /\ results[s][i] = sheetErr[s]
                      /\ \A j \in 1 .. (i - 1) : results[s][j] = Nil

\* C3: once the output root exists, unpack returns nil exactly when every
\* sheet's unpackSheet returned nil; otherwise it returns the error one of the
\* sheets returned, and in both cases only after every sheet goroutine has
\* run to completion.
C3_UnpackReturnsFirstError ==
    (mpc = "done" /\ RootCreated) =>
        /\ \A s \in SheetIds : spc[s] = "done"
        /\ ret = Nil <=> \A s \in SheetIds : sheetErr[s] = Nil
        /\ ret # Nil => \E s \in SheetIds : sheetErr[s] # Nil /\ ret = sheetErr[s]

\* two sheets failed and unpack returned the second sheet's error
C3_Witness ==
    /\ mpc = "done"
    /\ Len(Sheets) = 2
    /\ sheetErr[1] # Nil
    /\ sheetErr[2] # Nil
    /\ sheetErr[1] # sheetErr[2]
    /\ ret = sheetErr[2]

RectIn(r, b) == b.x0 <= r.x0 /\ r.x1 <= b.x1 /\ b.y0 <= r.y0 /\ r.y1 <= b.y1
\* the data model's invariant: frame inside the source image,
\* spriteSourceSize inside sourceSize
ValidGeometry(texture, img) ==
    /\ RectIn(FrameRect(texture.Frame), img.bounds)
    /\ RectIn(FrameRect(texture.SpriteSourceSize), SizeRect(texture.SourceSize))
ErrorOf(e, s, t) == e # Nil /\ e.sheet = s /\ e.tex = t

\* C5: a texture whose frame or spriteSourceSize lies outside the bounds makes
\* its extraction report an error; when it is the sheet's only bad texture,
\* the others are written and unpackSheet returns that texture's error.
C5_OutOfBoundsReported ==
    \A s \in SheetIds :
        (SheetReturned(s) /\ Decoded(s)) =>
            \A t \in TexIds(s) :
                ~ValidGeometry(Tex(s, t), SheetImage(s)) =>
                    /\ \E i \in 1 .. Len(results[s]) : ErrorOf(results[s][i], s, t)
                    /\ (\A u \in TexIds(s) \ {t} :
                           ValidGeometry(Tex(s, u), SheetImage(s)) /\ ~TexFails(s, u)) =>
                         /\ ErrorOf(sheetErr[s], s, t)
                         /\ \A u \in TexIds(s) \ {t} : Written(s, u)

\* C6: the output directory unpack leaves is the same for every worker count
\* and every interleaving: a second run on a clean directory, with any worker
\* count, leaves the files the first run left.
C6_OutputIndependentOfWorkers ==
    (mpc = "done" /\ run = "fresh" /\ ret # MkdirError) => files = prevFiles

\* C7: no unit started by unpack stays blocked for ever.  A dispatcher blocked
\* in `jobs <- tex` can only be released by a worker that has not returned, so
\* the claim requires that a dispatcher with a texture left to send always
\* has such a worker.
C7_NoUnitBlockedForever ==
    \A s \in SheetIds :
        (dpc[s] = "send" /\ dnext[s] <= Len(Sheets[s].Textures)) =>
            \E w \in WorkerIds : wpc[s][w] # "done"

\* C8: when unpack returns, every sheet goroutine has returned and no worker
\* of any sheet is still running.
C8_ReturnAfterPipelinesAndWorkers ==
    mpc = "done" =>
        \A s \in SheetIds :
            /\ spc[s] = (IF ret = MkdirError THEN "idle" ELSE "done")
            /\ \A w \in WorkerIds : wpc[s][w] \in {"idle", "done"}

\* unpack returned a sheet's error, and workers of a sheet have run
C8_Witness ==
    /\ mpc = "done"
    /\ ret # Nil
    /\ ret # MkdirError
    /\ \E s \in SheetIds : AllWorkersDone(s) /\ results[s] # <<>>

\* C9: every texture a worker has completed, failed or not, has given exactly
\* one result and, with the progress sink present, exactly one increment of
\* the bars.
C9_OneSignalOneResult ==
    \A u \in attempted :
        /\ resCount[u] = 1
        /\ progress => sigCount[u] = 1

C11_UntrimmedRawCrop ==
    (/\ expc = "done"
     /\ ValidGeometry(exTex, SheetImage(1))
     /\ ~exTex.Trimmed
     /\ exTex.Frame.Width = exTex.SourceSize.Width
     /\ exTex.Frame.Height = exTex.SourceSize.Height) =>
        LET out == exOut.sprite
            src == SheetImage(1)
            fr == exTex.Frame
        IN  /\ out.bounds = SizeRect(exTex.SourceSize)
            /\ \A p \in DOMAIN out.pix :
                 out.pix[p] = ToRGBA(src.pix[<<fr.X + p[1], fr.Y + p[2]>>])

\* C13: the sprite of a rotated texture whose frame is not square differs from
\* the sprite the same geometry gives without the rotated flag.
C13_RotationApplied ==
    (/\ expc = "done"
     /\ ValidGeometry(exTex, SheetImage(1))
     /\ exTex.Rotated
     /\ exTex.Frame.Width # exTex.Frame.Height
     /\ exTex.Frame.Width > 0
     /\ exTex.Frame.Height > 0) =>
        exOut.sprite # Sprite([exTex EXCEPT !.Rotated = FALSE], SheetImage(1))

C14_DecodeFailureStopsSheet ==
    \A s \in SheetIds :
        ~Decoded(s) =>
            /\ \A w \in DOMAIN wpc[s] : wpc[s][w] = "idle"
            /\ dpc[s] = "idle"
            /\ results[s] = <<>>
            /\ sheetBar[s] = 0
            /\ \A t \in TexIds(s) :
                 /\ <<s, t>> \notin attempted
                 /\ files[Tex(s, t).FileName] = NoFile
                 /\ sigCount[<<s, t>>] = 0
            /\ SheetReturned(s) =>
                 /\ sheetErr[s] # Nil
                 /\ sheetErr[s].sheet = s
                 /\ sheetErr[s].tex = 0

\* sheet 1 failed to decode and its goroutine is done, while sheet 2 has
\* extracted a texture and incremented its bar
C14_Witness ==
    /\ Len(Sheets) = 2
    /\ ~Decoded(1)
    /\ spc[1] = "done"
    /\ sheetErr[1].op = "failed to decode webp file"
    /\ Decoded(2)
    /\ sheetBar[2] > 0

\* C15: in a run each sheet's image is decoded at most once, and a texture of
\* the sheet is extracted only after that one decode has succeeded.
C15_SingleDecode ==
    \A s \in SheetIds :
        /\ decodes[s] <= 1
        /\ ((\E w \in DOMAIN wpc[s] : wpc[s][w] = "work")
              \/ (\E t \in TexIds(s) : <<s, t>> \in attempted)) =>
             (decodes[s] = 1 /\ Decoded(s))

\* two workers have extracted the two textures of a sheet decoded once
C15_Witness ==
    /\ Workers = 2
    /\ \E s \in SheetIds :
         /\ Len(Sheets[s].Textures) = 2
         /\ <<s, 1>> \in attempted
         /\ <<s, 2>> \in attempted
         /\ werr[s][1] = Nil
         /\ werr[s][2] = Nil
         /\ wtex[s][1] # 0
         /\ wtex[s][2] # 0
         /\ decodes[s] = 1

\* the extractions in flight: the workers of sheet s inside unpackTexture
InFlight(s) == Cardinality({w \in DOMAIN wpc[s] : wpc[s][w] = "work"})
RECURSIVE SumInFlight(_)
SumInFlight(n) == IF n = 0 THEN 0 ELSE InFlight(n) + SumInFlight(n - 1)

\* C16: a sheet has at most Workers extractions in flight, and the run at
\* most Workers times the number of sheets.
C16_BoundedInFlight ==
    /\ \A s \in SheetIds : InFlight(s) <= Workers
    /\ SumInFlight(Len(Sheets)) <= Workers * Len(Sheets)

\* two sheets, and more extractions in flight than Workers
C16_Witness ==
    /\ Len(Sheets) = 2
    /\ SumInFlight(Len(Sheets)) > Workers
    /\ SumInFlight(Len(Sheets)) = Workers * Len(Sheets)

\* a sheet goroutine executes lines 247-249
StoresErr == \E s \in SheetIds : spc[s] = "locked" /\ spc'[s] = "stored"
\* unpack executes line 260
ReadsFirstErr == mpc \in {"wait", "pwait"} /\ mpc' = "done"

\* what lines 246-250 make of the slot: it is written only when nil, by the
\* holder of the mutex, with the holder's error; after a sheet has executed
\* lines 247-249 it is non-nil; when unpack returns it is non-nil exactly when
\* a sheet failed, and is then the error of one failing sheet
SlotStep ==
    /\ firstErr' # firstErr =>
         /\ firstErr = Nil
         /\ \E s \in SheetIds :
              /\ mu = s
              /\ spc[s] = "locked"
              /\ sheetErr[s] # Nil
              /\ firstErr' = sheetErr[s]
    /\ StoresErr => (mu # 0 /\ firstErr' # Nil)
    /\ (mpc' = "done" /\ ret' # MkdirError) =>
         /\ firstErr' # Nil <=> \E s \in SheetIds : sheetErr'[s] # Nil
         /\ firstErr' # Nil =>
              \E s \in SheetIds : sheetErr'[s] # Nil /\ firstErr' = sheetErr'[s]

\* C17 as stated: every read and every write of the first-error slot is made
\* holding the mutex; the slot is written at most once, never changes once it
\* holds an error, and ends as the error of one failing sheet, non-nil
\* whenever a sheet failed.
C17_SlotOnlyUnderMutex ==
    [][/\ SlotStep
       /\ (StoresErr \/ ReadsFirstErr \/ firstErr' # firstErr) => mu # 0]_vars

\* C17, amended: the sheet goroutines read and write the slot holding the
\* mutex; unpack reads it at line 260 without the mutex, after wg.Wait() has
\* returned, when every sheet goroutine is done and the mutex is free; the
\* slot is written at most once, never changes once it holds an error, and
\* ends as the error of one failing sheet, non-nil whenever a sheet failed.
C17_FirstErrorSlot ==
    [][/\ SlotStep
       /\ (StoresErr \/ firstErr' # firstErr) => mu # 0
       /\ ReadsFirstErr => (AllSheetsDone /\ mu = 0)]_vars

\* two sheets failed; the slot holds the error of sheet 1 and unpack has
\* returned it
C17_Witness ==
    /\ mpc = "done"
    /\ Len(Sheets) = 2
    /\ sheetErr[1] # Nil
    /\ sheetErr[2] # Nil
    /\ firstErr = sheetErr[1]
    /\ firstErr # sheetErr[2]
    /\ ret = firstErr

\* C18: a worker about to send on results finds room in the queue: the
\* results sent for a sheet never exceed its texture count, the capacity.
C18_ResultsNeverBlock ==
    \A s \in SheetIds :
        /\ Len(results[s]) <= Len(Sheets[s].Textures)
        /\ \A w \in DOMAIN wpc[s] :
             wpc[s][w] = "work" => Len(results[s]) < resultsCap(s)

\* a sheet of two textures whose queue is full while nothing has read it
C18_Witness ==
    \E s \in SheetIds :
        /\ Len(Sheets[s].Textures) = 2
        /\ Len(results[s]) = 2
        /\ spc[s] = "wait"
        /\ ~resultsClosed[s]

C20_ChannelCloseSafety ==
    [][\A s \in SheetIds :
         /\ (~resultsClosed[s] /\ resultsClosed'[s]) =>
              (spc[s] = "wait" /\ \A w \in DOMAIN wpc[s] : wpc[s][w] = "done")
         /\ resultsClosed[s] =>
              /\ resultsClosed'[s]
              /\ results'[s] = results[s]
              /\ spc[s] # "wait"
         /\ (Decoded(s) /\ spc[s] = "wait" /\ spc'[s] # "wait") => resultsClosed'[s]
         /\ (~jobsClosed[s] /\ jobsClosed'[s]) =>
              (dpc[s] = "send" /\ dnext[s] > Len(Sheets[s].Textures))
         /\ jobsClosed[s] =>
              /\ jobsClosed'[s]
              /\ dnext'[s] = dnext[s]
              /\ dpc[s] = "done"]_vars

\* both channels of a two-texture sheet are closed, all results are in
C20_Witness ==
    \E s \in SheetIds :
        /\ Workers = 2
        /\ Len(Sheets[s].Textures) = 2
        /\ jobsClosed[s]
        /\ resultsClosed[s]
        /\ Len(results[s]) = 2

=============================================================================
